---- MODULE Spec2Model ----
(***************************************************************************)
(* Model of src/components/MoonBitcoinAnalysis.js: the React component     *)
(* that loads two CSV files once, and aggregates Bitcoin daily price-range *)
(* values by moon phase over a selectable look-back window.                *)
(*                                                                         *)
(* JavaScript values are modelled as follows.                              *)
(*  - A number is a record [nan, n, d]: NaN, or the binary floating-point  *)
(*    value n/d, d a power of two. Numbers follow the IEEE-754 rules of    *)
(*    the doubles of the program: a decimal literal, a sum and a quotient  *)
(*    are each rounded to the nearest representable value, ties to even.   *)
(*    A double carries 53 significant bits, more than the integers of the  *)
(*    model checker hold; the model carries Precision significant bits.    *)
(*  - A parsed CSV cell is a record [t, n, d] with t one of "num" (the     *)
(*    number n/d), "null" (an empty field under dynamicTyping) and "str"   *)
(*    (a string with no numeric prefix, such as n/a).                      *)
(*  - A date cell is [ok, day]: a string Date parses to day number `day`,  *)
(*    or (ok = FALSE) a string Date cannot parse (Invalid Date, whose time *)
(*    value is NaN).                                                       *)
(*  - The result of toFixed(2) is a record [nan, neg, cents]: the string   *)
(*    "NaN", or sign and hundredths of the printed decimal.                *)
(***************************************************************************)
EXTENDS Integers, Sequences, FiniteSets, TLC

VARIABLES fs, pc, moonResponse, consoleErrors,
          data, bitcoinData, processedData, periodAverage,
          selectedPeriod, loading

vars == <<fs, pc, moonResponse, consoleErrors,
          data, bitcoinData, processedData, periodAverage,
          selectedPeriod, loading>>

----------------------------------------------------------------------------
(* Program constants *)

periods == <<1, 3, 6, 12, 24, 36, 48, 60, 72, 84>>

phaseOrder == <<"New Moon", "First Quarter", "Full Moon", "Last Quarter">>

Range(s) == {s[i] : i \in DOMAIN s}

----------------------------------------------------------------------------
(* JavaScript numbers *)

Precision == 13

Num(n, d) == [nan |-> FALSE, n |-> n, d |-> d]

NaN == [nan |-> TRUE, n |-> 0, d |-> 1]

Abs(i) == IF i < 0 THEN -i ELSE i

Max2(i, j) == IF i >= j THEN i ELSE j

\* the integer nearest to a/b (a >= 0, b > 0), the even one on a tie
RoundHalfEven(a, b) ==
    LET q == a \div b
        r == a % b
    IN  IF 2 * r > b \/ (2 * r = b /\ q % 2 = 1) THEN q + 1 ELSE q

RECURSIVE Significand(_, _, _)
\* a/b > 0 written m * 2^e with 2^(Precision-1) <= a/(b * 2^e) < 2^Precision
\* and m the significand rounded to an integer; e is counted from e0
Significand(a, b, e0) ==
    IF a \div b >= 2 ^ Precision THEN Significand(a, 2 * b, e0 + 1)
    ELSE IF a \div b < 2 ^ (Precision - 1)
         THEN IF b % 2 = 0 THEN Significand(a, b \div 2, e0 - 1)
              ELSE Significand(2 * a, b, e0 - 1)
    ELSE [m |-> RoundHalfEven(a, b), e |-> e0]

\* the floating-point number nearest to the rational a/b (b > 0)
fl(a, b) ==
    IF a = 0 THEN Num(0, 1)
    ELSE LET s == Significand(Abs(a), b, 0)
             m == IF a < 0 THEN -s.m ELSE s.m
         IN  IF s.e >= 0 THEN Num(m * 2 ^ s.e, 1) ELSE Num(m, 2 ^ (-s.e))

\* x <= y on numbers (the denominators are powers of two); any comparison
\* with NaN is false
NumLE(x, y) ==
    /\ ~x.nan
    /\ ~y.nan
    /\ LET d == Max2(x.d, y.d) IN x.n * (d \div x.d) <= y.n * (d \div y.d)

\* x + y
NumAdd(x, y) ==
    IF x.nan \/ y.nan THEN NaN
    ELSE LET d == Max2(x.d, y.d)
         IN  fl(x.n * (d \div x.d) + y.n * (d \div y.d), d)

\* x / k for a positive integer k
NumDiv(x, k) == IF x.nan THEN NaN ELSE fl(x.n, x.d * k)

\* Number.prototype.toFixed(2): "NaN" for NaN; otherwise the sign of x and
\* the integer c for which c/100 is closest to the exact value of |x|, the
\* larger on a tie.
toFixed2(x) ==
    IF x.nan THEN [nan |-> TRUE, neg |-> FALSE, cents |-> 0]
    ELSE LET a == Abs(x.n) * 100
             q == a \div x.d
             r == a % x.d
         IN  [nan |-> FALSE, neg |-> x.n < 0,
              cents |-> IF 2 * r >= x.d THEN q + 1 ELSE q]

\* Number(s) of a string printed by toFixed(2)
NumberOf(s) ==
    IF s.nan THEN NaN ELSE fl(IF s.neg THEN -s.cents ELSE s.cents, 100)

\* the literal '0.00'
ZeroString == [nan |-> FALSE, neg |-> FALSE, cents |-> 0]

----------------------------------------------------------------------------
(* Parsed cells *)

Cell(t, n, d) == [t |-> t, n |-> n, d |-> d]

NullCell == Cell("null", 0, 1)

StrCell == Cell("str", 0, 1)

\* the global isNaN(v): Number(v) is NaN. Number(null) is 0.
isNaN(v) == v.t = "str"

\* parseFloat(v): v is printed and its numeric prefix read; "null" and a
\* string with no numeric prefix give NaN.
parseFloat(v) == IF v.t = "num" THEN Num(v.n, v.d) ELSE NaN

\* the value of v as an operand of +, for the values isNaN lets through
ToNumber(v) == IF v.t = "num" THEN Num(v.n, v.d)
               ELSE IF v.t = "null" THEN Num(0, 1) ELSE NaN

InvalidDate == [ok |-> FALSE, day |-> 0]

Day(k) == [ok |-> TRUE, day |-> k]

\* a >= b on Dates: both time values compared as numbers, NaN >= x is false
DateGE(a, b) == a.ok /\ b.ok /\ a.day >= b.day

----------------------------------------------------------------------------
(* lodash *)

RECURSIVE baseSum(_)
\* _.sum as _.mean uses it, on a non-empty array of operands of +
baseSum(s) ==
    IF Len(s) = 1 THEN s[1] ELSE NumAdd(baseSum(SubSeq(s, 1, Len(s) - 1)), s[Len(s)])

\* _.mean: NaN for an empty array, else the sum divided by the length
mean(s) == IF Len(s) = 0 THEN NaN ELSE NumDiv(baseSum(s), Len(s))

\* _.max and _.min of a non-empty array of numbers

max(s) == CHOOSE x \in Range(s) : \A y \in Range(s) : NumLE(y, x)

min(s) == CHOOSE x \in Range(s) : \A y \in Range(s) : NumLE(x, y)

----------------------------------------------------------------------------
(* processData, lines 53-116, as functions of the component's state:       *)
(* d = data, b = bitcoinData, p = selectedPeriod                           *)

\* Array.prototype.slice(-k), k > 0: the last k elements, all if fewer
sliceLast(s, k) == IF k >= Len(s) THEN s ELSE SubSeq(s, Len(s) - k + 1, Len(s))

IsNewMoon(row) == row.phase = "New Moon"

DateOf(row) == row.date

newMoons(d) ==
    LET rows == SelectSeq(d, IsNewMoon) IN [i \in DOMAIN rows |-> DateOf(rows[i])]

relevantNewMoons(d, p) == sliceLast(newMoons(d), p + 1)

\* new Date(relevantNewMoons[0]); new Date(undefined) is an Invalid Date
startDate(d, p) ==
    LET first == relevantNewMoons(d, p)
    IN  IF first = <<>> THEN InvalidDate ELSE first[1]

\* rows.filter(row => new Date(row.date) >= start)
FromDate(rows, start) ==
    LET InWindow(row) == DateGE(row.date, start) IN SelectSeq(rows, InWindow)

relevantMoonData(d, p) == FromDate(d, startDate(d, p))

relevantBitcoinData(d, b, p) == FromDate(b, startDate(d, p))

PriceOf(row) == row.price_range_percent

NotNaN(v) == ~isNaN(v)

\* the filter of line 74: the values whose Number() is not NaN
periodFilter(v) == NotNaN(v)

periodMean(d, b, p) ==
    LET rows == relevantBitcoinData(d, b, p)
        ranges == SelectSeq([i \in DOMAIN rows |-> PriceOf(rows[i])], periodFilter)
    IN  mean([i \in DOMAIN ranges |-> ToNumber(ranges[i])])

\* a slip: the mean published as it is, not rounded
periodAverageUnrounded(d, b, p) == periodMean(d, b, p)

\* the value handed to setPeriodAverage
periodAverageOf(d, b, p) == NumberOf(toFixed2(periodMean(d, b, p)))

defaultItem(phase) ==
    [phase |-> phase, avgRange |-> ZeroString, maxRange |-> ZeroString,
     minRange |-> ZeroString, count |-> 0]

\* _.groupBy(relevantMoonData, 'phase'): the phases present, each with its rows
groupedData(d, p) ==
    LET rel == relevantMoonData(d, p)
    IN  [ph \in {rel[i].phase : i \in DOMAIN rel} |->
            LET OfPhase(row) == row.phase = ph IN SelectSeq(rel, OfPhase)]

IsNumber(x) == ~x.nan

validRangesOf(entries) ==
    SelectSeq([i \in DOMAIN entries |-> parseFloat(PriceOf(entries[i]))], IsNumber)

\* a slip: the average printed without the test for an empty validRanges
processedItemUnguarded(phase, entries, pm) ==
    LET validRanges == validRangesOf(entries)
    IN  [phase |-> phase,
         avgRange |-> toFixed2(mean(validRanges)),
         maxRange |-> IF Len(validRanges) # 0 THEN toFixed2(max(validRanges)) ELSE ZeroString,
         minRange |-> IF Len(validRanges) # 0 THEN toFixed2(min(validRanges)) ELSE ZeroString,
         count |-> Len(validRanges),
         periodAvg |-> toFixed2(pm)]

\* one element of `processed`
processedItem(phase, entries, pm) ==
    LET validRanges == validRangesOf(entries)
    IN  [phase |-> phase,
         avgRange |-> IF Len(validRanges) # 0 THEN toFixed2(mean(validRanges)) ELSE ZeroString,
         maxRange |-> IF Len(validRanges) # 0 THEN toFixed2(max(validRanges)) ELSE ZeroString,
         minRange |-> IF Len(validRanges) # 0 THEN toFixed2(min(validRanges)) ELSE ZeroString,
         count |-> Len(validRanges),
         periodAvg |-> toFixed2(pm)]

\* one element of `mergedData`: {...processedItem || defaultItem, periodAvg}
mergedItem(phase, grouped, pm) ==
    LET item == IF phase \in DOMAIN grouped
                THEN processedItem(phase, grouped[phase], pm)
                ELSE defaultItem(phase)
    IN  [phase |-> item.phase, avgRange |-> item.avgRange,
         maxRange |-> item.maxRange, minRange |-> item.minRange,
         count |-> item.count, periodAvg |-> toFixed2(pm)]

\* a slip: `processed` published without the merge into the defaults
mergedDataOfProcessed(d, b, p) ==
    LET grouped == groupedData(d, p)
        pm == periodMean(d, b, p)
        Present(phase) == phase \in DOMAIN grouped
        present == SelectSeq(phaseOrder, Present)
    IN  [i \in DOMAIN present |-> mergedItem(present[i], grouped, pm)]

mergedData(d, b, p) ==
    LET grouped == groupedData(d, p)
        pm == periodMean(d, b, p)
    IN  [i \in DOMAIN phaseOrder |-> mergedItem(phaseOrder[i], grouped, pm)]

indexOf(s, x) == IF x \in Range(s) THEN CHOOSE i \in DOMAIN s : s[i] = x ELSE 0

PhaseIndex(item) == indexOf(phaseOrder, item.phase)

RECURSIVE sortBy(_)
\* _.sortBy(s, item => phaseOrder.indexOf(item.phase)): a stable sort by key
\* (the last element inserted into the sorted rest, after every element
\* whose key is not greater)
sortBy(s) ==
    IF Len(s) <= 1 THEN s
    ELSE LET rest == sortBy(SubSeq(s, 1, Len(s) - 1))
             x == s[Len(s)]
             k == Cardinality({i \in DOMAIN rest : PhaseIndex(rest[i]) <= PhaseIndex(x)})
         IN  SubSeq(rest, 1, k) \o <<x>> \o SubSeq(rest, k + 1, Len(rest))

sortedData(d, b, p) == sortBy(mergedData(d, b, p))

\* the guard of line 54
processDataRuns(d, b) == Len(d) # 0 /\ Len(b) # 0

----------------------------------------------------------------------------
(* The two CSV files. A file is [exists, rows]; a row of the text holds a  *)
(* date string, for the moon file a phase, and a price_range_percent field *)
(* that is the decimal numeral n/d ("float"), empty, or some other text.   *)

MaxRows == 3

MaxPriceRows == 2

SeqUpTo(S, n) == UNION {[1..k -> S] : k \in 0..n}

File(rows) == [exists |-> TRUE, rows |-> rows]

NoFile == [exists |-> FALSE, rows |-> <<>>]

Float(n, d) == Cell("float", n, d)

EmptyField == Cell("empty", 0, 1)

TextField == Cell("text", 0, 1)

MoonRow(date, phase, price) ==
    [date |-> date, phase |-> phase, price_range_percent |-> price]

PriceRow(date, price) == [date |-> date, price_range_percent |-> price]

DateCells == {Day(1), Day(2), InvalidDate}

\* Files that vary the dates and the order of the rows
WindowMoonRows ==
    {MoonRow(dt, "New Moon", Float(1, 8)) : dt \in DateCells}
        \cup {MoonRow(dt, "Full Moon", Float(1, 8)) : dt \in {Day(1), Day(2)}}

\* one price row for each date a moon row can carry
WindowPriceFile ==
    File(<<PriceRow(Day(1), Float(1, 8)), PriceRow(Day(2), Float(1, 8)),
           PriceRow(InvalidDate, Float(1, 8))>>)

WindowFiles ==
    {[moon |-> File(m), btc |-> WindowPriceFile] :
        m \in SeqUpTo(WindowMoonRows, MaxRows)}

\* 0.125, 0.045, an empty field, a text such as n/a
PriceFields == {Float(1, 8), Float(45, 1000), EmptyField, TextField}

\* Files that vary the phases and the values of the moon rows
PhaseMoonRows ==
    {MoonRow(Day(1), "New Moon", v) : v \in {Float(1, 8), Float(45, 1000), EmptyField}}
        \cup {MoonRow(Day(1), "Last Quarter", v) : v \in {Float(1, 8), EmptyField, TextField}}

PhaseFiles ==
    {[moon |-> File(m), btc |-> File(<<PriceRow(Day(1), Float(1, 8))>>)] :
        m \in SeqUpTo(PhaseMoonRows, MaxRows)}

\* Files that vary the values and the dates of the price rows
AveragePriceRows ==
    {PriceRow(dt, v) : dt \in {Day(1), Day(2)}, v \in PriceFields \cup {Float(-1, 8)}}

AverageFiles ==
    {[moon |-> File(<<MoonRow(Day(2), "New Moon", Float(1, 8))>>), btc |-> File(b)] :
        b \in SeqUpTo(AveragePriceRows, MaxPriceRows)}

\* File systems in which a file is missing or unreadable
SomeMoonFile == File(<<MoonRow(Day(1), "New Moon", Float(1, 8))>>)

SomePriceFile == File(<<PriceRow(Day(1), Float(1, 8))>>)

BrokenFiles ==
    {[moon |-> NoFile, btc |-> SomePriceFile],
     [moon |-> SomeMoonFile, btc |-> NoFile],
     [moon |-> NoFile, btc |-> NoFile]}

FileSystems == WindowFiles \cup PhaseFiles \cup AverageFiles \cup BrokenFiles

\* Papa.parse with dynamicTyping: a decimal field becomes a number, an empty
\* field null, any other text stays a string; the date stays a string
parseDynamic(field) ==
    IF field.t = "float"
    THEN LET x == fl(field.n, field.d) IN Cell("num", x.n, x.d)
    ELSE IF field.t = "empty" THEN NullCell ELSE StrCell

parseRow(row) == [row EXCEPT !.price_range_percent = parseDynamic(@)]

PapaParse(rows) == [i \in DOMAIN rows |-> parseRow(rows[i])]

----------------------------------------------------------------------------
(* The component *)

Init ==
    /\ fs \in FileSystems
    /\ pc = "readMoon"
    /\ moonResponse = <<>>
    /\ consoleErrors = 0
    /\ data = <<>>
    /\ bitcoinData = <<>>
    /\ processedData = <<>>
    /\ periodAverage = Num(0, 1)
    /\ selectedPeriod = 12
    /\ loading = TRUE

\* the effect of lines 52-119, run with the state d, b, p of the new render
processData(d, b, p) ==
    IF ~processDataRuns(d, b)
    THEN UNCHANGED <<processedData, periodAverage>>
    ELSE /\ periodAverage' = periodAverageOf(d, b, p)
         /\ processedData' = sortedData(d, b, p)

\* a slip: the moon rows published before the second read
MoonReadOkPublishing ==
    /\ pc = "readMoon"
    /\ fs.moon.exists
    /\ moonResponse' = fs.moon.rows
    /\ data' = PapaParse(fs.moon.rows)
    /\ pc' = "readBitcoin"
    /\ UNCHANGED <<fs, consoleErrors, bitcoinData, processedData,
                   periodAverage, selectedPeriod, loading>>

\* line 32 resolves
MoonReadOk ==
    /\ pc = "readMoon"
    /\ fs.moon.exists
    /\ moonResponse' = fs.moon.rows
    /\ pc' = "readBitcoin"
    /\ UNCHANGED <<fs, consoleErrors, data, bitcoinData, processedData,
                   periodAverage, selectedPeriod, loading>>

\* the catch of lines 41-44
fetchFailed ==
    /\ consoleErrors' = consoleErrors + 1
    /\ loading' = FALSE
    /\ pc' = "failed"
    /\ UNCHANGED <<fs, moonResponse, data, bitcoinData, processedData,
                   periodAverage, selectedPeriod>>

\* line 32 rejects
MoonReadFail ==
    /\ pc = "readMoon"
    /\ ~fs.moon.exists
    /\ fetchFailed

\* line 33 resolves: lines 35-40, then the effect on the new state
BitcoinReadOk ==
    /\ pc = "readBitcoin"
    /\ fs.btc.exists
    /\ data' = PapaParse(moonResponse)
    /\ bitcoinData' = PapaParse(fs.btc.rows)
    /\ loading' = FALSE
    /\ pc' = "done"
    /\ processData(data', bitcoinData', selectedPeriod)
    /\ UNCHANGED <<fs, moonResponse, consoleErrors, selectedPeriod>>

\* line 33 rejects
BitcoinReadFail ==
    /\ pc = "readBitcoin"
    /\ ~fs.btc.exists
    /\ fetchFailed

\* the select's onChange (line 146), offered once the loading view is gone,
\* then the effect on the new state
SelectPeriod(p) ==
    /\ ~loading
    /\ p # selectedPeriod
    /\ selectedPeriod' = p
    /\ processData(data, bitcoinData, p)
    /\ UNCHANGED <<fs, pc, moonResponse, consoleErrors, data, bitcoinData, loading>>

Next ==
    \/ MoonReadOk
    \/ MoonReadFail
    \/ BitcoinReadOk
    \/ BitcoinReadFail
    \/ \E p \in Range(periods) : SelectPeriod(p)

Spec == Init /\ [][Next]_vars

----------------------------------------------------------------------------
(* Properties *)

\* processData has run past its guard on the state shown
Ran == pc = "done" /\ processDataRuns(data, bitcoinData)

SameNumber(x, y) == (x.nan /\ y.nan) \/ (NumLE(x, y) /\ NumLE(y, x))

\* the number a 2-decimal field prints, in hundredths
Cents(str) == IF str.neg THEN -str.cents ELSE str.cents

Phases(out) == [i \in DOMAIN out |-> out[i].phase]

\* the window of the state shown
Start == startDate(data, selectedPeriod)

InWindowRows(rows) == {i \in DOMAIN rows : DateGE(rows[i].date, Start)}

\* the rows of a phase in the window that carry a number
ValidOfPhase(phase) ==
    {i \in InWindowRows(data) :
        data[i].phase = phase /\ data[i].price_range_percent.t = "num"}

\* C1 as stated: once the load has ended and processData has run, whatever
\* the two datasets hold (also when one has no rows), processedData has
\* exactly the 4 phases New Moon, First Quarter, Full Moon, Last Quarter.
C1_FourEntriesAlways == pc = "done" => Phases(processedData) = phaseOrder

\* C1 amended: when both datasets have a row, processedData has exactly the
\* 4 phases in the canonical order for every period; when one of them has no
\* rows, processData returns at its guard and processedData stays empty.
C1_FourEntriesWhenBothLoaded ==
    pc = "done" =>
        IF Len(data) # 0 /\ Len(bitcoinData) # 0
        THEN Phases(processedData) = phaseOrder
        ELSE processedData = <<>>

\* a period was selected and the window holds rows of some phases only
C1_Witness ==
    /\ Ran
    /\ selectedPeriod = 1
    /\ \E i, j \in DOMAIN processedData :
          processedData[i].count = 0 /\ processedData[j].count > 0

\* C2: a missing or non-numeric price_range_percent is left out of the count
\* of its phase and out of the period average: when the price rows of the
\* window hold a number, the period average is the mean, printed with 2
\* decimals, of the numbers alone among them.
C2_MissingValuesExcluded ==
    Ran =>
        /\ \A i \in DOMAIN processedData :
              processedData[i].count = Cardinality(ValidOfPhase(processedData[i].phase))
        /\ LET IsNum(v) == v.t = "num"
               rows == FromDate(bitcoinData, Start)
               fields == SelectSeq([i \in DOMAIN rows |-> PriceOf(rows[i])], IsNum)
               numbers == [i \in DOMAIN fields |-> ToNumber(fields[i])]
           IN  Len(numbers) # 0 =>
                   SameNumber(periodAverage, NumberOf(toFixed2(mean(numbers))))

\* C3: with moon rows but no New Moon row, the result is all zero: 4
\* summaries with "0.00" ranges and count 0, and a period average and
\* periodAvg fields that are the number 0.00, not NaN.
C3_NoNewMoonAllZero ==
    (Ran /\ newMoons(data) = <<>>) =>
        /\ Phases(processedData) = phaseOrder
        /\ \A i \in DOMAIN processedData :
              /\ processedData[i].avgRange = ZeroString
              /\ processedData[i].maxRange = ZeroString
              /\ processedData[i].minRange = ZeroString
              /\ processedData[i].count = 0
              /\ processedData[i].periodAvg = ZeroString
        /\ SameNumber(periodAverage, Num(0, 1))

\* C4: with N >= 1 New Moon rows (their dates well-formed), the window start
\* is the earliest date among the last min(selectedPeriod + 1, N) New Moons
\* in ascending date order, that is the k-th latest New Moon date.
C4_WindowStartEarliestOfLast ==
    LET nm == newMoons(data)
        k == IF selectedPeriod + 1 <= Len(nm) THEN selectedPeriod + 1 ELSE Len(nm)
        Later(day) == Cardinality({i \in DOMAIN nm : nm[i].day > day})
        NotEarlier(day) == Cardinality({i \in DOMAIN nm : nm[i].day >= day})
    IN  (Ran /\ Len(nm) >= 1 /\ \A i \in DOMAIN nm : nm[i].ok) =>
            /\ Start.ok
            /\ Later(Start.day) < k
            /\ k <= NotEarlier(Start.day)

\* C5: the periodAvg field is the same in all 4 entries, and it is the
\* published periodAverage printed with 2 decimals.
C5_PeriodAvgUniform ==
    Ran =>
        \A i \in DOMAIN processedData :
            /\ processedData[i].periodAvg = processedData[1].periodAvg
            /\ SameNumber(NumberOf(processedData[i].periodAvg), periodAverage)

\* a period average that rounding changed (0.125 printed 0.13)
C5_Witness ==
    /\ Ran
    /\ selectedPeriod # 12
    /\ ~processedData[1].periodAvg.nan
    /\ processedData[1].periodAvg.cents = 13

\* C6: for the loaded datasets and two periods p1 < p2, the window of p2
\* selects at least as many moon rows and as many price rows as that of p1.
C6_WindowMonotone ==
    Ran =>
        \A p1, p2 \in Range(periods) :
            p1 < p2 =>
                /\ Len(relevantMoonData(data, p2)) >= Len(relevantMoonData(data, p1))
                /\ Len(relevantBitcoinData(data, bitcoinData, p2))
                      >= Len(relevantBitcoinData(data, bitcoinData, p1))

\* C7: a row with a malformed date never silently takes part in a date
\* comparison: an aggregation over such a row is reported, and a malformed
\* New Moon date is never the window start while a well-formed one exists.
C7_MalformedDateReported ==
    LET nm == newMoons(data)
        Malformed(rows) == \E i \in DOMAIN rows : ~rows[i].date.ok
    IN  Ran =>
            /\ (Malformed(data) \/ Malformed(bitcoinData)) => consoleErrors > 0
            /\ (\E i \in DOMAIN nm : nm[i].ok) => Start.ok

\* C8: once the load has ended, by success or by a failed read, loading is
\* false in every later state; after a failed load both datasets and the
\* processed output are empty, whatever periods are selected.
C8_LoadEnds ==
    /\ pc \in {"done", "failed"} => ~loading
    /\ pc = "failed" => data = <<>> /\ bitcoinData = <<>> /\ processedData = <<>>

\* the second read failed after the first succeeded, then a period was chosen
C8_Witness ==
    /\ pc = "failed"
    /\ moonResponse # <<>>
    /\ selectedPeriod # 12
    /\ consoleErrors = 1

\* C9: a phase whose count is 0 has avgRange, maxRange and minRange "0.00";
\* every count is the number of rows of the phase in the window that carry
\* a number.
C9_ZeroCountZeroRanges ==
    Ran =>
        \A i \in DOMAIN processedData :
            /\ processedData[i].count = Cardinality(ValidOfPhase(processedData[i].phase))
            /\ processedData[i].count = 0 =>
                  /\ processedData[i].avgRange = ZeroString
                  /\ processedData[i].maxRange = ZeroString
                  /\ processedData[i].minRange = ZeroString

\* a phase whose rows in the window all lack a number, beside a phase that
\* has numbers
C9_Witness ==
    /\ Ran
    /\ \E i, j \in DOMAIN processedData :
          /\ processedData[i].count = 0
          /\ \E r \in InWindowRows(data) : data[r].phase = processedData[i].phase
          /\ processedData[j].count > 0
          /\ processedData[j].avgRange # ZeroString

\* C10: for every phase with count > 0, minRange <= avgRange <= maxRange as
\* numbers.
C10_MinAvgMax ==
    Ran =>
        \A i \in DOMAIN processedData :
            processedData[i].count > 0 =>
                /\ Cents(processedData[i].minRange) <= Cents(processedData[i].avgRange)
                /\ Cents(processedData[i].avgRange) <= Cents(processedData[i].maxRange)

====
